---------------------------- MODULE Spec2Model ----------------------------
(* The realtime session engine of src/types.ts (the App component):        *)
(* startSession / stopSession, the transport callbacks onopen, onmessage,  *)
(* onerror and onclose, and the playback scheduling done in onmessage.     *)
(*                                                                         *)
(* Every invocation of startSession is an "attempt", numbered 1, 2, ...;   *)
(* the MediaStream, the AudioContexts, the transport session and the       *)
(* video timer created by attempt a carry the number a.  0 stands for      *)
(* null in the refs.  Times are whole units of the output device clock.    *)
EXTENDS Integers, Sequences, FiniteSets

\* ------------------------------------------------------------------ bounds
MaxAttempts == 2      \* startSession invocations explored by SpecLifecycle
SessionAudio == 1     \* audio payload events explored by SpecSession
SessionClock == 1     \* clock ticks explored by SpecSession
PlayAudio == 2        \* audio payload events explored by SpecPlay
PlayClock == 2        \* clock ticks explored by SpecPlay
TextLen == 2          \* characters a transcript buffer holds in SpecTranscript
TranscriptTurns == 1  \* entry-producing turns explored by SpecTranscript
LogTurns == 9         \* entry-producing turns explored by SpecLog
MemoryTurns == 51     \* entry-producing turns explored by SpecMemory
CaptureBlocks == 2    \* captured audio blocks explored by SpecCapture
CaptureTicks == 1     \* video timer ticks explored by SpecCapture
RestartAudio == 2     \* audio payload events explored by SpecRestart
RestartText == 1      \* characters a transcript buffer receives per turn
                      \*   in SpecRestart

TranscriptCap == 15   \* .slice(-15): the entries the Transcript Log keeps
MemoryCap == 50       \* .slice(0, 50): the entries the Memory Log keeps

Durations == {1, 2}   \* buffer.duration of a decoded audio payload

\* A text is a sequence of characters; " " is the whitespace character.
Fragments == {<<"a">>, <<"b">>, <<" ">>}   \* the texts of transcription events

\* ------------------------------------------------------------------- state
VARIABLES
  sessionState,      \* useState<SessionState>
  error,             \* useState<string | null>: "null" or the message's kind
  sessionRef,        \* sessionRef.current: 0 or the attempt whose session it is
  intervalRef,       \* intervalRef.current: 0 or the timer's number
  sourcesRef,        \* sourcesRef.current: the set of in-flight sources
  nextStartTimeRef,  \* nextStartTimeRef.current: the cursor
  srcObject,         \* videoRef.current.srcObject: 0 or the stream's attempt
  audioContextOut,   \* audioContextOut.current: 0 or the context's attempt
  pc,                \* per attempt: where its startSession invocation stands
  transport,         \* per attempt: the state of its transport connection
  stream,            \* per attempt: its MediaStream ("none", "live", "stopped")
  ctxTime,           \* per attempt: currentTime of its AudioContexts, -1
                     \*   before they are created
  closes,            \* per attempt: how often close() was called on its session
  closureState,      \* per attempt: the sessionState its startSession
                     \*   closure holds, that of the render that created it
  sendQueue,         \* per attempt: the media chunks whose
                     \*   sessionPromise.then(...) has not run yet
  mediaOut,          \* the calls of sendRealtimeInput, per mime type
  captureLog,        \* history: the audio blocks captured, those whose
                     \*   encoding or sending failed, the video timer ticks
  timers,            \* the setInterval timers that are running
  bufs,              \* per audio payload event: its handler and its source
  currentInputTranscription,   \* currentInputTranscription.current
  currentOutputTranscription,  \* currentOutputTranscription.current
  transcriptions,    \* useState<TranscriptionEntry[]>: the Transcript Log
  dbEntries,         \* useState<TranscriptionEntry[]>: the Memory Log
  dateNow,           \* the value the next flush reads from Date.now()
  receivedIn,        \* history: the user fragments that have arrived since
                     \*   the last turn-complete event was handled
  receivedOut,       \* history: the same for the assistant
  sessionIn,         \* history: the user fragments that have arrived since
                     \*   the last startSession or turn-complete event
  sessionOut,        \* history: the same for the assistant
  appended,          \* history: every entry ever appended to the
                     \*   Transcript Log, in order
  stopped,           \* history: stopSession has run since the last startSession
  lastSched,         \* history: the source scheduled last since the last
                     \*   interruption, 0 if none
  clockMoved         \* history: an audio payload event moved the cursor up to
                     \*   the clock since lastSched was scheduled

vars == <<sessionState, error, sessionRef, intervalRef, sourcesRef,
          nextStartTimeRef, srcObject, audioContextOut, pc, transport, stream,
          ctxTime, closes, closureState, sendQueue, mediaOut, captureLog,
          timers, bufs, currentInputTranscription,
          currentOutputTranscription, transcriptions, dbEntries, dateNow,
          receivedIn, receivedOut, sessionIn, sessionOut, appended, stopped,
          lastSched, clockMoved>>

SessionStates == {"DISCONNECTED", "CONNECTING", "CONNECTED", "ERROR"}

\* The whole state as one record, so that a handler is a function on it.
World ==
  [sessionState |-> sessionState, error |-> error, sessionRef |-> sessionRef,
   intervalRef |-> intervalRef, sourcesRef |-> sourcesRef,
   nextStartTimeRef |-> nextStartTimeRef, srcObject |-> srcObject,
   audioContextOut |-> audioContextOut, pc |-> pc, transport |-> transport,
   stream |-> stream, ctxTime |-> ctxTime, closes |-> closes,
   closureState |-> closureState, sendQueue |-> sendQueue,
   mediaOut |-> mediaOut, captureLog |-> captureLog,
   timers |-> timers, bufs |-> bufs,
   currentInputTranscription |-> currentInputTranscription,
   currentOutputTranscription |-> currentOutputTranscription,
   transcriptions |-> transcriptions, dbEntries |-> dbEntries,
   dateNow |-> dateNow, receivedIn |-> receivedIn,
   receivedOut |-> receivedOut, sessionIn |-> sessionIn,
   sessionOut |-> sessionOut, appended |-> appended, stopped |-> stopped,
   lastSched |-> lastSched, clockMoved |-> clockMoved]

Apply(w) ==
  /\ sessionState' = w.sessionState
  /\ error' = w.error
  /\ sessionRef' = w.sessionRef
  /\ intervalRef' = w.intervalRef
  /\ sourcesRef' = w.sourcesRef
  /\ nextStartTimeRef' = w.nextStartTimeRef
  /\ srcObject' = w.srcObject
  /\ audioContextOut' = w.audioContextOut
  /\ pc' = w.pc
  /\ transport' = w.transport
  /\ stream' = w.stream
  /\ ctxTime' = w.ctxTime
  /\ closes' = w.closes
  /\ closureState' = w.closureState
  /\ sendQueue' = w.sendQueue
  /\ mediaOut' = w.mediaOut
  /\ captureLog' = w.captureLog
  /\ timers' = w.timers
  /\ bufs' = w.bufs
  /\ currentInputTranscription' = w.currentInputTranscription
  /\ currentOutputTranscription' = w.currentOutputTranscription
  /\ transcriptions' = w.transcriptions
  /\ dbEntries' = w.dbEntries
  /\ dateNow' = w.dateNow
  /\ receivedIn' = w.receivedIn
  /\ receivedOut' = w.receivedOut
  /\ sessionIn' = w.sessionIn
  /\ sessionOut' = w.sessionOut
  /\ appended' = w.appended
  /\ stopped' = w.stopped
  /\ lastSched' = w.lastSched
  /\ clockMoved' = w.clockMoved

Max(a, b) == IF a >= b THEN a ELSE b

Attempts == DOMAIN pc

\* ctx.currentTime of the AudioContext of attempt c.
CurrentTime(w, c) == w.ctxTime[c]

\* ---------------------------------------------------------------- helpers

\* session.close(): an open connection starts closing (its close event
\* follows); on a connection already closing or closed nothing changes.
SessionClose(t) == IF t = "open" THEN "closing" ELSE t

\* source.stop() inside try/catch: a playing source is cut off; a source
\* that has already ended is left as it is (the error is swallowed).
SourceStop(b) == IF b.st = "playing" THEN [b EXCEPT !.st = "stopped"] ELSE b

\* sourcesRef.current.forEach(s => { try { s.stop() } catch {} })
StopSources(w) ==
  [w EXCEPT !.bufs = [k \in DOMAIN w.bufs |->
                        IF k \in w.sourcesRef THEN SourceStop(w.bufs[k])
                        ELSE w.bufs[k]]]

\* stopSession that forgets sessionRef.current = null.
StopCloseSessionKeepsRef(w) ==
  IF w.sessionRef # 0
  THEN [w EXCEPT !.transport[w.sessionRef] = SessionClose(@),
                 !.closes[w.sessionRef] = @ + 1]
  ELSE w

\* if (sessionRef.current) { try { close() } catch {}; sessionRef.current = null }
StopCloseSession(w) ==
  IF w.sessionRef # 0
  THEN [w EXCEPT !.transport[w.sessionRef] = SessionClose(@),
                 !.closes[w.sessionRef] = @ + 1,
                 !.sessionRef = 0]
  ELSE w

\* if (intervalRef.current) { clearInterval(...); intervalRef.current = null }
StopClearInterval(w) ==
  IF w.intervalRef # 0
  THEN [w EXCEPT !.timers = @ \ {w.intervalRef}, !.intervalRef = 0]
  ELSE w

\* sources.forEach(stop); sources.clear()
StopClearSources(w) == [StopSources(w) EXCEPT !.sourcesRef = {}]

\* if (srcObject) { getTracks().forEach(stop); srcObject = null }
StopReleaseTracks(w) ==
  IF w.srcObject # 0
  THEN [w EXCEPT !.stream[w.srcObject] = "stopped", !.srcObject = 0]
  ELSE w

stopSession(w) ==
  LET w1 == StopCloseSession(w)
      w2 == StopClearInterval(w1)
      w3 == StopClearSources(w2)
      w4 == [w3 EXCEPT !.sessionState = "DISCONNECTED", !.stopped = TRUE]
  IN  StopReleaseTracks(w4)

\* A catch block that reports the failure as SessionState ERROR.
StartCatchSetsError(w, a, msg) ==
  [w EXCEPT !.error = msg, !.sessionState = "ERROR", !.pc[a] = "failed"]

\* catch (err) { setError(...); setSessionState(DISCONNECTED) }
StartCatch(w, a, msg) ==
  [w EXCEPT !.error = msg, !.sessionState = "DISCONNECTED", !.pc[a] = "failed"]

\* The interrupted branch without its try/catch: a stop() that throws on a
\* source that has already ended aborts the handler before the set is
\* cleared and the cursor reset.
InterruptedNoCatch(w) ==
  IF \E k \in w.sourcesRef : w.bufs[k].st = "ended"
  THEN [w EXCEPT !.bufs = [k \in DOMAIN @ |-> [@[k] EXCEPT !.cut = TRUE]]]
  ELSE [StopSources(w) EXCEPT
          !.sourcesRef = {},
          !.nextStartTimeRef = 0,
          !.bufs = [k \in DOMAIN @ |-> [@[k] EXCEPT !.cut = TRUE]],
          !.lastSched = 0,
          !.clockMoved = FALSE]

\* if (message.serverContent?.interrupted) { stop all; clear; cursor = 0 }
Interrupted(w) ==
  [StopSources(w) EXCEPT
     !.sourcesRef = {},
     !.nextStartTimeRef = 0,
     !.bufs = [k \in DOMAIN @ |-> [@[k] EXCEPT !.cut = TRUE]],
     !.lastSched = 0,
     !.clockMoved = FALSE]

\* String.prototype.trim(): the text without its leading and trailing
\* whitespace.
RECURSIVE TrimStart(_)
TrimStart(s) ==
  IF s # <<>> /\ Head(s) = " " THEN TrimStart(Tail(s)) ELSE s

RECURSIVE TrimEnd(_)
TrimEnd(s) ==
  IF s # <<>> /\ s[Len(s)] = " " THEN TrimEnd(SubSeq(s, 1, Len(s) - 1)) ELSE s

Trim(s) == TrimEnd(TrimStart(s))

\* A slice that keeps the first n elements, the oldest, instead.
SliceLastKeepsOldest(s, n) == IF Len(s) <= n THEN s ELSE SubSeq(s, 1, n)

\* Array.prototype.slice(-n): the last n elements.
SliceLast(s, n) == IF Len(s) <= n THEN s ELSE SubSeq(s, Len(s) - n + 1, Len(s))

\* Array.prototype.slice(0, n): the first n elements.
SliceFirst(s, n) == IF Len(s) <= n THEN s ELSE SubSeq(s, 1, n)

\* A saveToDb that puts the entry at the end.
saveToDbAtEnd(w, entry) ==
  [w EXCEPT !.dbEntries = SliceFirst(@ \o <<entry>>, MemoryCap)]

\* setDbEntries(prev => [entry, ...prev].slice(0, 50))
saveToDb(w, entry) ==
  [w EXCEPT !.dbEntries = SliceFirst(<<entry>> \o @, MemoryCap)]

\* The entries a turn-complete event makes of the two trimmed buffers.
NewEntries(userT, aiT, t) ==
  (IF userT # <<>>
   THEN <<[text |-> userT, type |-> "user", timestamp |-> t]>> ELSE <<>>)
  \o (IF aiT # <<>>
      THEN <<[text |-> aiT, type |-> "ai", timestamp |-> t]>> ELSE <<>>)

\* if (inputTranscription) currentInput += text; the same for output.
MessageTranscription(w, m) ==
  [w EXCEPT !.currentInputTranscription = @ \o m.inputTranscription,
            !.currentOutputTranscription = @ \o m.outputTranscription]

\* if (turnComplete) { trim both; if (userT || aiT) { entries; saveToDb(ai);
\* setTranscriptions(... .slice(-15)); both buffers = '' } }
TurnComplete(w) ==
  LET userT == Trim(w.currentInputTranscription)
      aiT == Trim(w.currentOutputTranscription)
      newEntries == NewEntries(userT, aiT, w.dateNow)
      w0 == [w EXCEPT !.receivedIn = <<>>, !.receivedOut = <<>>,
                      !.sessionIn = <<>>, !.sessionOut = <<>>]
      w1 == IF aiT # <<>>
            THEN saveToDb(w0, [text |-> aiT, type |-> "ai",
                               timestamp |-> w.dateNow])
            ELSE w0
  IN  IF userT # <<>> \/ aiT # <<>>
      THEN [w1 EXCEPT
              !.transcriptions = SliceLast(@ \o newEntries, TranscriptCap),
              !.appended = @ \o newEntries,
              !.currentInputTranscription = <<>>,
              !.currentOutputTranscription = <<>>,
              !.dateNow = @ + 1]
      ELSE w0

\* onmessage after the audio part: the transcription fragments, the
\* turn-complete flag, the interrupted flag.
MessageRest(w, m) ==
  LET w1 == MessageTranscription(w, m)
      w2 == IF m.turnComplete THEN TurnComplete(w1) ELSE w1
  IN  IF m.interrupted THEN Interrupted(w2) ELSE w2

\* A message arrives: its fragments count as received from now on.
Arrive(w, m) ==
  [w EXCEPT !.receivedIn = @ \o m.inputTranscription,
            !.receivedOut = @ \o m.outputTranscription,
            !.sessionIn = @ \o m.inputTranscription,
            !.sessionOut = @ \o m.outputTranscription]

\* An onmessage that sets the cursor to the clock instead of raising it.
MessageAudioBeginAtClock(w, m) ==
  LET c == w.audioContextOut
      now == CurrentTime(w, c)
  IN  [w EXCEPT
         !.nextStartTimeRef = now,
         !.clockMoved = @ \/ (now > w.nextStartTimeRef),
         !.bufs = Append(@, [ctx |-> c, dur |-> m.audio, st |-> "decoding",
                             msg |-> m, when |-> 0, at |-> 0, cut |-> FALSE])]

\* onmessage up to the await: the cursor is raised to the clock and the
\* handler is suspended in decodeAudioData.
MessageAudioBegin(w, m) ==
  LET c == w.audioContextOut
      now == CurrentTime(w, c)
  IN  [w EXCEPT
         !.nextStartTimeRef = Max(@, now),
         !.clockMoved = @ \/ (now > w.nextStartTimeRef),
         !.bufs = Append(@, [ctx |-> c, dur |-> m.audio, st |-> "decoding",
                             msg |-> m, when |-> 0, at |-> 0, cut |-> FALSE])]

\* source.start(when): a start time in the past starts the source at once.
EffectiveStart(when, now) == Max(when, now)

\* Scheduling that forgets nextStartTimeRef.current += buffer.duration.
ScheduleSourceNoAdvance(w, k) ==
  LET b == w.bufs[k]
      when == w.nextStartTimeRef
  IN  [w EXCEPT
         !.bufs[k] = [b EXCEPT !.st = "playing", !.when = when,
                               !.at = EffectiveStart(when, CurrentTime(w, b.ctx))],
         !.sourcesRef = @ \cup {k},
         !.lastSched = k,
         !.clockMoved = FALSE]

\* onmessage after the await: the source is started at the cursor, the
\* cursor advances by the buffer's duration, the source joins the set.
ScheduleSource(w, k) ==
  LET b == w.bufs[k]
      when == w.nextStartTimeRef
  IN  [w EXCEPT
         !.bufs[k] = [b EXCEPT !.st = "playing", !.when = when,
                               !.at = EffectiveStart(when, CurrentTime(w, b.ctx))],
         !.nextStartTimeRef = when + b.dur,
         !.sourcesRef = @ \cup {k},
         !.lastSched = k,
         !.clockMoved = FALSE]

MessageAudioResume(w, k) == MessageRest(ScheduleSource(w, k), w.bufs[k].msg)

\* session.sendRealtimeInput({ media: chunk }), inside
\* sessionPromise.then(...).catch(() => {}): a send that throws is swallowed.
SendChunk(w, c) ==
  [w EXCEPT !.mediaOut[c.mimeType] = @ + 1,
            !.captureLog.sendFailed = @ + (IF c.fails THEN 1 ELSE 0)]

\* sessionPromise.then(session => send): at once when the promise of
\* attempt a is resolved, else when it resolves.
ThenSend(w, a, c) ==
  IF w.pc[a] = "ready" THEN SendChunk(w, c)
  ELSE [w EXCEPT !.sendQueue[a] = Append(@, c)]

RECURSIVE SendAll(_, _)
SendAll(w, q) == IF q = <<>> THEN w ELSE SendAll(SendChunk(w, Head(q)), Tail(q))

\* An onaudioprocess whose failure is reported like a transport error.
AudioProcessSurfaces(w, a, outcome) ==
  LET w1 == [w EXCEPT !.captureLog.blocks = @ + 1]
  IN  IF outcome = "encodeFails"
      THEN stopSession([w1 EXCEPT !.captureLog.encodeFailed = @ + 1,
                                  !.error = "api"])
      ELSE ThenSend(w1, a, [mimeType |-> "audio",
                            fails |-> outcome = "sendFails"])

\* processor.onaudioprocess: createPcmBlob, then the send.  A block whose
\* encoding throws ends the callback; the next event calls it again.
AudioProcess(w, a, outcome) ==
  LET w1 == [w EXCEPT !.captureLog.blocks = @ + 1]
  IN  IF outcome = "encodeFails"
      THEN [w1 EXCEPT !.captureLog.encodeFailed = @ + 1]
      ELSE ThenSend(w1, a, [mimeType |-> "audio",
                            fails |-> outcome = "sendFails"])

\* The setInterval callback of attempt t: a frame is captured and sent if
\* the sessionState of the closure is CONNECTED (the video and the canvas
\* exist, toBlob yields a blob).
VideoTick(w, t) ==
  LET w1 == [w EXCEPT !.captureLog.ticks = @ + 1]
  IN  IF w.closureState[t] = "CONNECTED"
      THEN ThenSend(w1, t, [mimeType |-> "image", fails |-> FALSE])
      ELSE w1

\* onopen: CONNECTED, the audio processor, the video timer.
OpenHandler(w, a) ==
  [w EXCEPT !.sessionState = "CONNECTED",
            !.transport[a] = "open",
            !.intervalRef = a,
            !.timers = @ \cup {a},
            !.pc[a] = "opened"]

\* onerror: setError(...); stopSession()
ErrorHandler(w) == stopSession([w EXCEPT !.error = "api"])

\* message.serverContent: the audio payload (0: none, else its duration),
\* the two transcriptions (the empty text: none), the two flags.
Messages ==
  [audio : {0} \cup Durations, interrupted : BOOLEAN,
   inputTranscription : {<<>>} \cup Fragments,
   outputTranscription : {<<>>} \cup Fragments,
   turnComplete : BOOLEAN]

\* The messages that carry no transcription and do not complete a turn.
AudioMessages ==
  {m \in Messages : /\ m.inputTranscription = <<>>
                    /\ m.outputTranscription = <<>>
                    /\ ~m.turnComplete}

\* ------------------------------------------------------------------- Init
Init ==
  /\ sessionState = "DISCONNECTED"
  /\ error = "null"
  /\ sessionRef = 0
  /\ intervalRef = 0
  /\ sourcesRef = {}
  /\ nextStartTimeRef = 0
  /\ srcObject = 0
  /\ audioContextOut = 0
  /\ pc = <<>>
  /\ transport = <<>>
  /\ stream = <<>>
  /\ ctxTime = <<>>
  /\ closes = <<>>
  /\ closureState = <<>>
  /\ sendQueue = <<>>
  /\ mediaOut = [audio |-> 0, image |-> 0]
  /\ captureLog = [blocks |-> 0, encodeFailed |-> 0, sendFailed |-> 0,
                   ticks |-> 0]
  /\ timers = {}
  /\ bufs = <<>>
  /\ currentInputTranscription = <<>>
  /\ currentOutputTranscription = <<>>
  /\ transcriptions = <<>>
  /\ dbEntries = <<>>
  /\ dateNow = 1
  /\ receivedIn = <<>>
  /\ receivedOut = <<>>
  /\ sessionIn = <<>>
  /\ sessionOut = <<>>
  /\ appended = <<>>
  /\ stopped = FALSE
  /\ lastSched = 0
  /\ clockMoved = FALSE

\* ---------------------------------------------------------------- actions

\* A Connect button that is rendered in every state.
ConnectButtonAlways(w) == w.sessionState \in SessionStates

\* The Connect button exists only while DISCONNECTED is rendered.
ConnectButtonShown(w) == w.sessionState = "DISCONNECTED"

\* A startSession that forgets setError(null).
StartBeginKeepsError(w) ==
  [w EXCEPT !.sessionState = "CONNECTING",
            !.pc = Append(@, "gum"),
            !.transport = Append(@, "none"),
            !.stream = Append(@, "none"),
            !.ctxTime = Append(@, -1),
            !.closes = Append(@, 0),
            !.closureState = Append(@, w.sessionState),
            !.sendQueue = Append(@, <<>>),
            !.sessionIn = <<>>,
            !.sessionOut = <<>>,
            !.stopped = FALSE]

\* startSession up to its first await (getUserMedia).
StartBegin(w) ==
  [w EXCEPT !.error = "null",
            !.sessionState = "CONNECTING",
            !.pc = Append(@, "gum"),
            !.transport = Append(@, "none"),
            !.stream = Append(@, "none"),
            !.ctxTime = Append(@, -1),
            !.closes = Append(@, 0),
            !.closureState = Append(@, w.sessionState),
            !.sendQueue = Append(@, <<>>),
            !.sessionIn = <<>>,
            !.sessionOut = <<>>,
            !.stopped = FALSE]

ClickConnect(maxA) ==
  /\ ConnectButtonShown(World)
  /\ Len(pc) < maxA
  /\ Apply(StartBegin(World))

\* The Disconnect button, shown in every other state, calls stopSession.
ClickDisconnect ==
  /\ ~ConnectButtonShown(World)
  /\ Apply(stopSession(World))

\* getUserMedia resolves: videoRef.srcObject = stream; await play().
GumGranted(a) ==
  /\ pc[a] = "gum"
  /\ Apply([World EXCEPT !.stream[a] = "live", !.srcObject = a, !.pc[a] = "play"])

\* getUserMedia rejects: the catch block.
GumDenied(a) ==
  /\ pc[a] = "gum"
  /\ Apply(StartCatch(World, a, "perm"))

\* play() resolves: both AudioContexts are created; await resume().
PlayResolved(a) ==
  /\ pc[a] = "play"
  /\ Apply([World EXCEPT !.audioContextOut = a, !.ctxTime[a] = 0,
                         !.pc[a] = "resume"])

\* resume() resolves: ai.live.connect(...) is called; await sessionPromise.
ResumeResolved(a) ==
  /\ pc[a] = "resume"
  /\ Apply([World EXCEPT !.transport[a] = "connecting", !.pc[a] = "connect"])

\* The transport opens: the onopen callback.
OnOpen(a) ==
  /\ pc[a] = "connect"
  /\ transport[a] = "connecting"
  /\ Apply(OpenHandler(World, a))

\* sessionPromise resolves: sessionRef.current = session, then the sends
\* that waited for it.
SessionResolved(a) ==
  /\ pc[a] = "opened"
  /\ Apply([SendAll(World, sendQueue[a]) EXCEPT
              !.sessionRef = a, !.pc[a] = "ready", !.sendQueue[a] = <<>>])

\* sessionPromise rejects: the catch block.
ConnectRejected(a) ==
  /\ pc[a] = "connect"
  /\ Apply([StartCatch(World, a, "open") EXCEPT
              !.transport[a] = IF @ = "connecting" THEN "closed" ELSE @])

\* A transport error event: the onerror callback; the close event follows.
OnError(a) ==
  /\ transport[a] \in {"connecting", "open"}
  /\ Apply([ErrorHandler(World) EXCEPT !.transport[a] = "closing"])

\* The transport's close event: the onclose callback.
OnClose(a) ==
  /\ transport[a] \in {"open", "closing"}
  /\ Apply(stopSession([World EXCEPT !.transport[a] = "closed"]))

\* An inbound message: the onmessage callback, up to its await if it has one.
OnMessage(a, m, maxAudio) ==
  /\ transport[a] = "open"
  /\ IF m.audio # 0 /\ audioContextOut # 0
     THEN /\ Len(bufs) < maxAudio
          /\ Apply(MessageAudioBegin(Arrive(World, m), m))
     ELSE Apply(MessageRest(Arrive(World, m), m))

\* decodeAudioData resolves: the rest of that onmessage invocation.
DecodeResolved(k) ==
  /\ bufs[k].st = "decoding"
  /\ Apply(MessageAudioResume(World, k))

\* A source plays to its end.
SourceFinishes(k) ==
  /\ bufs[k].st = "playing"
  /\ CurrentTime(World, bufs[k].ctx) >= bufs[k].at + bufs[k].dur
  /\ Apply([World EXCEPT !.bufs[k].st = "ended"])

\* source.onended: sourcesRef.current.delete(source)
OnEnded(k) ==
  /\ bufs[k].st = "ended"
  /\ k \in sourcesRef
  /\ Apply([World EXCEPT !.sourcesRef = @ \ {k}])

\* The audio processor of attempt a is connected: its onopen has run.
\* Nothing disconnects it or closes its AudioContext afterwards.
AudioProcessorActive(a) == pc[a] \in {"opened", "ready"}

\* An audioprocess event: the processor has a block of samples.
OnAudioProcess(a, outcome, maxBlocks) ==
  /\ AudioProcessorActive(a)
  /\ captureLog.blocks < maxBlocks
  /\ Apply(AudioProcess(World, a, outcome))

\* The video timer of attempt t fires.
OnVideoTick(t, maxTicks) ==
  /\ t \in timers
  /\ captureLog.ticks < maxTicks
  /\ Apply(VideoTick(World, t))

\* Time passes: every AudioContext that exists advances by one unit.
Tick(maxC) ==
  /\ \E a \in Attempts : ctxTime[a] >= 0
  /\ \A a \in Attempts : ctxTime[a] < maxC
  /\ Apply([World EXCEPT !.ctxTime = [a \in DOMAIN @ |->
                                        IF @[a] >= 0 THEN @[a] + 1 ELSE @[a]]])

Next(maxA, maxAudio, maxC) ==
  \/ ClickConnect(maxA)
  \/ ClickDisconnect
  \/ \E a \in Attempts : GumGranted(a)
  \/ \E a \in Attempts : GumDenied(a)
  \/ \E a \in Attempts : PlayResolved(a)
  \/ \E a \in Attempts : ResumeResolved(a)
  \/ \E a \in Attempts : OnOpen(a)
  \/ \E a \in Attempts : SessionResolved(a)
  \/ \E a \in Attempts : ConnectRejected(a)
  \/ \E a \in Attempts : OnError(a)
  \/ \E a \in Attempts : OnClose(a)
  \/ \E a \in Attempts, m \in AudioMessages : OnMessage(a, m, maxAudio)
  \/ \E k \in DOMAIN bufs : DecodeResolved(k)
  \/ \E k \in DOMAIN bufs : SourceFinishes(k)
  \/ \E k \in DOMAIN bufs : OnEnded(k)
  \/ Tick(maxC)

\* The connection lifecycle: several start attempts, whose transports
\* deliver messages without audio payload.
NextLifecycle ==
  \/ ClickConnect(MaxAttempts)
  \/ ClickDisconnect
  \/ \E a \in Attempts : GumGranted(a)
  \/ \E a \in Attempts : GumDenied(a)
  \/ \E a \in Attempts : PlayResolved(a)
  \/ \E a \in Attempts : ResumeResolved(a)
  \/ \E a \in Attempts : OnOpen(a)
  \/ \E a \in Attempts : SessionResolved(a)
  \/ \E a \in Attempts : ConnectRejected(a)
  \/ \E a \in Attempts : OnError(a)
  \/ \E a \in Attempts : OnClose(a)
  \/ \E a \in Attempts, m \in {x \in AudioMessages : x.audio = 0} :
       OnMessage(a, m, 0)

SpecLifecycle == Init /\ [][NextLifecycle]_vars

\* One session with everything that can happen to it: stop, failures,
\* audio payload events and the device clock.
SpecSession == Init /\ [][Next(1, SessionAudio, SessionClock)]_vars

\* The playback scheduler: one session that connects and stays connected
\* while audio payload and interrupted events arrive and time passes.
NextPlay ==
  \/ ClickConnect(1)
  \/ \E a \in Attempts : GumGranted(a)
  \/ \E a \in Attempts : PlayResolved(a)
  \/ \E a \in Attempts : ResumeResolved(a)
  \/ \E a \in Attempts : OnOpen(a)
  \/ \E a \in Attempts : SessionResolved(a)
  \/ \E a \in Attempts, m \in AudioMessages : OnMessage(a, m, PlayAudio)
  \/ \E k \in DOMAIN bufs : DecodeResolved(k)
  \/ \E k \in DOMAIN bufs : SourceFinishes(k)
  \/ \E k \in DOMAIN bufs : OnEnded(k)
  \/ Tick(PlayClock)

SpecPlay == Init /\ [][NextPlay]_vars

BlockOutcomes == {"ok", "encodeFails", "sendFails"}

\* The capture pipelines: two start attempts with everything that can
\* happen to their connections, the audioprocess events and the video
\* timer ticks; the transports deliver messages without audio payload.
NextCapture ==
  \/ ClickConnect(2)
  \/ ClickDisconnect
  \/ \E a \in Attempts : GumGranted(a)
  \/ \E a \in Attempts : GumDenied(a)
  \/ \E a \in Attempts : PlayResolved(a)
  \/ \E a \in Attempts : ResumeResolved(a)
  \/ \E a \in Attempts : OnOpen(a)
  \/ \E a \in Attempts : SessionResolved(a)
  \/ \E a \in Attempts : ConnectRejected(a)
  \/ \E a \in Attempts : OnError(a)
  \/ \E a \in Attempts : OnClose(a)
  \/ \E a \in Attempts, m \in {x \in AudioMessages : x.audio = 0} :
       OnMessage(a, m, 0)
  \/ \E a \in Attempts, o \in BlockOutcomes : OnAudioProcess(a, o, CaptureBlocks)
  \/ \E t \in timers : OnVideoTick(t, CaptureTicks)

SpecCapture == Init /\ [][NextCapture]_vars

\* The bounds of a run on message m: the texts the transcript buffers have
\* received stay within maxLen characters, and it arrives while fewer than
\* maxTurns turns have produced entries.
WithinText(m, maxLen, maxTurns) ==
  /\ Len(receivedIn \o m.inputTranscription) <= maxLen
  /\ Len(receivedOut \o m.outputTranscription) <= maxLen
  /\ Len(currentInputTranscription \o m.inputTranscription) <= maxLen
  /\ Len(currentOutputTranscription \o m.outputTranscription) <= maxLen
  /\ dateNow <= maxTurns

\* The messages of a conversation that is never interrupted; an audio
\* payload, if there is one, has duration 1.
TranscriptMessages == {m \in Messages : ~m.interrupted /\ m.audio \in {0, 1}}

\* The transcript aggregator: one session that connects and stays connected
\* while transcription fragments, audio payloads and turn-complete events
\* arrive.
NextTranscript ==
  \/ ClickConnect(1)
  \/ \E a \in Attempts : GumGranted(a)
  \/ \E a \in Attempts : PlayResolved(a)
  \/ \E a \in Attempts : ResumeResolved(a)
  \/ \E a \in Attempts : OnOpen(a)
  \/ \E a \in Attempts : SessionResolved(a)
  \/ \E a \in Attempts, m \in TranscriptMessages :
       WithinText(m, TextLen, TranscriptTurns) /\ OnMessage(a, m, 1)
  \/ \E k \in DOMAIN bufs : DecodeResolved(k)

SpecTranscript == Init /\ [][NextTranscript]_vars

\* The messages of a conversation without audio payload in which every
\* transcription event has the text "a".
LogMessages ==
  {m \in Messages : /\ m.audio = 0
                    /\ ~m.interrupted
                    /\ m.inputTranscription \in {<<>>, <<"a">>}
                    /\ m.outputTranscription \in {<<>>, <<"a">>}}

\* The Transcript Log: one session that stays connected through many
\* turns, in each of which the user, the assistant, both or neither speak.
NextLog ==
  \/ ClickConnect(1)
  \/ \E a \in Attempts : GumGranted(a)
  \/ \E a \in Attempts : PlayResolved(a)
  \/ \E a \in Attempts : ResumeResolved(a)
  \/ \E a \in Attempts : OnOpen(a)
  \/ \E a \in Attempts : SessionResolved(a)
  \/ \E a \in Attempts, m \in LogMessages :
       WithinText(m, 1, LogTurns) /\ OnMessage(a, m, 0)

SpecLog == Init /\ [][NextLog]_vars

\* After message m both the user and the assistant have spoken in the
\* current turn.
BothSpoke(m) ==
  /\ currentInputTranscription \o m.inputTranscription # <<>>
  /\ currentOutputTranscription \o m.outputTranscription # <<>>

\* The Memory Log: one session that stays connected through many turns, in
\* each of which the user and the assistant both speak.
NextMemory ==
  \/ ClickConnect(1)
  \/ \E a \in Attempts : GumGranted(a)
  \/ \E a \in Attempts : PlayResolved(a)
  \/ \E a \in Attempts : ResumeResolved(a)
  \/ \E a \in Attempts : OnOpen(a)
  \/ \E a \in Attempts : SessionResolved(a)
  \/ \E a \in Attempts, m \in LogMessages :
       /\ WithinText(m, 1, MemoryTurns)
       /\ m.turnComplete => BothSpoke(m)
       /\ OnMessage(a, m, 0)

SpecMemory == Init /\ [][NextMemory]_vars

\* The messages of a restarted conversation: an audio payload of duration
\* 1, or a message without audio that carries the user fragment "a", the
\* assistant fragment "a", both or neither, and may complete the turn.
RestartMessages ==
  {m \in Messages :
     /\ ~m.interrupted
     /\ m.inputTranscription \in {<<>>, <<"a">>}
     /\ m.outputTranscription \in {<<>>, <<"a">>}
     /\ \/ m.audio = 0
        \/ /\ m.audio = 1
           /\ m.inputTranscription = <<>>
           /\ m.outputTranscription = <<>>
           /\ ~m.turnComplete}

\* A session that is stopped once it is established and a second one
\* started after it: both connect and receive audio payloads, transcription
\* fragments and turn-complete events; the device clocks stand still.
NextRestart ==
  \/ ClickConnect(2)
  \/ sessionRef # 0 /\ ClickDisconnect
  \/ \E a \in Attempts : GumGranted(a)
  \/ \E a \in Attempts : PlayResolved(a)
  \/ \E a \in Attempts : ResumeResolved(a)
  \/ \E a \in Attempts : OnOpen(a)
  \/ \E a \in Attempts : SessionResolved(a)
  \/ \E a \in Attempts : OnClose(a)
  \/ \E a \in Attempts, m \in RestartMessages :
       WithinText(m, RestartText, 1) /\ OnMessage(a, m, RestartAudio)
  \/ \E k \in DOMAIN bufs : DecodeResolved(k)

SpecRestart == Init /\ [][NextRestart]_vars

\* ------------------------------------------------------------------ claims

\* The edges the SessionState description of the specification allows.
SpecEdges ==
  {<<"DISCONNECTED", "CONNECTING">>, <<"CONNECTING", "CONNECTED">>,
   <<"CONNECTED", "DISCONNECTED">>, <<"CONNECTING", "ERROR">>,
   <<"CONNECTED", "ERROR">>, <<"ERROR", "DISCONNECTED">>}

\* The edges the code takes: a stop or a failure leads straight to
\* DISCONNECTED, ERROR is never assigned, and an open callback that arrives
\* after a stop or a failure leads from DISCONNECTED to CONNECTED.
CodeEdges ==
  {<<"DISCONNECTED", "CONNECTING">>, <<"CONNECTING", "CONNECTED">>,
   <<"CONNECTING", "DISCONNECTED">>, <<"CONNECTED", "DISCONNECTED">>,
   <<"DISCONNECTED", "CONNECTED">>}

CodeEdgeStep ==
  /\ sessionState' # "ERROR"
  /\ sessionState' # sessionState
       => <<sessionState, sessionState'>> \in CodeEdges

NoStartWhileBusyStep ==
  sessionState \in {"CONNECTING", "CONNECTED"} => Len(pc') = Len(pc)

C2_NoStartWhileBusy == [][NoStartWhileBusyStep]_vars

\* C2 witness: the session is CONNECTED, a further attempt is within the
\* bound, and start is not offered.
C2_BusyWitness ==
  /\ sessionState = "CONNECTED"
  /\ Len(pc) < MaxAttempts
  /\ sessionRef # 0
  /\ ~ENABLED ClickConnect(MaxAttempts)

\* C3: once a failure has set the error message (which only a new start()
\* clears), the state is DISCONNECTED and stays so until that new start().
C3_DisconnectedAfterFailure ==
  error # "null" => sessionState = "DISCONNECTED"

\* C4: once stop() has run, the state is DISCONNECTED until the next
\* start(), whatever callbacks of the stopped attempt arrive.
C4_DisconnectedAfterStop ==
  stopped => sessionState = "DISCONNECTED"

\* C5: stop() twice in a row gives the state that stop() once gives, and
\* close() is called at most once on a session.
C5_StopIdempotent ==
  /\ stopSession(stopSession(World)) = stopSession(World)
  /\ \A a \in Attempts : closes[a] <= 1

\* C5 witness: stop() has just closed a session and cut off a source, and
\* calling it again changes nothing.
C5_StopWitness ==
  /\ stopped
  /\ \E a \in Attempts : closes[a] = 1 /\ transport[a] = "closing"
  /\ \E k \in DOMAIN bufs : bufs[k].st = "stopped"
  /\ stopSession(World) = World

\* C6: a start attempt that has failed holds nothing: its microphone and
\* camera are released, its session handle is not held, its video timer is
\* not running and its audio capture callback is not active.
C6_FailedStartHoldsNothing ==
  \A a \in Attempts :
    pc[a] = "failed" =>
      /\ stream[a] # "live"
      /\ sessionRef # a
      /\ a \notin timers
      /\ ~AudioProcessorActive(a)

\* The source of audio payload event k has been scheduled.
Scheduled(b) == b.st # "decoding"

End(b) == b.when + b.dur

\* A step in which the decode of audio payload event k completes and its
\* buffer is scheduled.
Schedules(k) == bufs[k].st = "decoding" /\ bufs'[k].st # "decoding"

GaplessStep ==
  \A k \in DOMAIN bufs :
    (Schedules(k) /\ lastSched # 0) => bufs'[k].when = End(bufs[lastSched])

CursorFollowsLast ==
  lastSched # 0 =>
    /\ nextStartTimeRef >= End(bufs[lastSched])
    /\ ~clockMoved => nextStartTimeRef = End(bufs[lastSched])

BackToBackStep ==
  /\ CursorFollowsLast'
  /\ \A k \in DOMAIN bufs :
       Schedules(k) =>
         /\ bufs'[k].when = nextStartTimeRef
         /\ lastSched # 0 =>
              /\ bufs'[k].when >= End(bufs[lastSched])
              /\ ~clockMoved => bufs'[k].when = End(bufs[lastSched])

InterruptedMessage ==
  [audio |-> 0, interrupted |-> TRUE, inputTranscription |-> <<>>,
   outputTranscription |-> <<>>, turnComplete |-> FALSE]

\* The handling of a message that carries the interrupted flag completes
\* (it leaves every audio payload event so far marked as cut).
InterruptedHandled ==
  /\ \A k \in DOMAIN bufs' : bufs'[k].cut
  /\ pc' = pc
  /\ ctxTime' = ctxTime
  /\ Len(bufs') = Len(bufs)
  /\ \/ \E a \in Attempts : OnMessage(a, InterruptedMessage, PlayAudio)
     \/ \E k \in DOMAIN bufs : bufs[k].msg.interrupted /\ DecodeResolved(k)

\* C8: handling an interrupted event leaves the in-flight set empty, the
\* cursor at 0 and none of the sources that were in flight playing.
InterruptClearsStep ==
  \/ /\ sourcesRef' = {}
     /\ nextStartTimeRef' = 0
     /\ \A k \in sourcesRef : bufs'[k].st # "playing"
  \/ ~InterruptedHandled

C8_InterruptClearsAll == [][InterruptClearsStep]_vars

\* C8 witness: an interruption found two sources in flight; both are cut
\* off, the set is empty and the cursor is 0.
C8_ManyWitness ==
  /\ Len(bufs) = 2
  /\ bufs[1].st = "stopped" /\ bufs[2].st = "stopped"
  /\ sourcesRef = {}
  /\ nextStartTimeRef = 0

\* C9: a buffer whose audio payload event arrived before an interrupted
\* event that has been handled is not playing and not in the in-flight set.
C9_NoAudioFromBeforeInterrupt ==
  \A k \in DOMAIN bufs :
    bufs[k].cut => bufs[k].st # "playing" /\ k \notin sourcesRef

\* C10: at most one onmessage invocation is in progress: no message's
\* handling begins while an earlier one is suspended.
C10_OneMessageAtATime ==
  Cardinality({k \in DOMAIN bufs : bufs[k].st = "decoding"}) <= 1

\* The entries the step appends to the Transcript Log are those a flush of
\* the received texts rin (user) and rout (assistant) produces: one entry
\* per role whose trimmed text is not empty, with that text, the user's
\* entry before the assistant's.
Produces(rin, rout) ==
  LET n == Len(transcriptions)
      p == [i \in 1..(Len(transcriptions') - n) |-> transcriptions'[n + i]]
      users == {i \in DOMAIN p : p[i].type = "user"}
      ais == {i \in DOMAIN p : p[i].type = "ai"}
  IN  /\ Len(transcriptions') >= n
      /\ SubSeq(transcriptions', 1, n) = transcriptions
      /\ Cardinality(users) = IF Trim(rin) # <<>> THEN 1 ELSE 0
      /\ Cardinality(ais) = IF Trim(rout) # <<>> THEN 1 ELSE 0
      /\ Len(p) = Cardinality(users) + Cardinality(ais)
      /\ \A i \in users : p[i].text = Trim(rin)
      /\ \A i \in ais : p[i].text = Trim(rout)
      /\ \A i \in users, j \in ais : i < j

FlushStep ==
  /\ \A a \in Attempts, m \in Messages :
       (m.turnComplete /\ m.audio = 0 /\ OnMessage(a, m, 0)) =>
         Produces(receivedIn \o m.inputTranscription,
                  receivedOut \o m.outputTranscription)
  /\ \A k \in DOMAIN bufs :
       (bufs[k].msg.turnComplete /\ DecodeResolved(k)) =>
         Produces(receivedIn, receivedOut)

\* C11: handling a turn-complete event produces, for each role whose
\* trimmed text is not empty, exactly one entry whose text is the trimmed
\* concatenation, in arrival order, of the fragments that arrived for that
\* role since the previous turn-complete event was handled; none if both
\* are empty; the user's entry first.
C11_FlushProducesReceived == [][FlushStep]_vars

Min(a, b) == IF a <= b THEN a ELSE b

\* C12: the Transcript Log holds at most 15 entries, and they are the last
\* 15 entries, in order, of all entries ever appended to it (so that an
\* append to a full log evicts the oldest entries first).
C12_LogIsLast15 ==
  LET n == Len(appended)
      k == Min(n, 15)
  IN  /\ Len(transcriptions) = k
      /\ \A i \in 1..k : transcriptions[i] = appended[n - k + i]
      /\ \A i, j \in 1..k :
           i < j => transcriptions[i].timestamp <= transcriptions[j].timestamp

\* C12 witness: 17 entries have been appended, the last two to a full log;
\* the log holds 15 and the oldest two are gone.
C12_EvictedWitness ==
  /\ Len(appended) = 17
  /\ Len(transcriptions) = 15
  /\ transcriptions[1] = appended[3]
  /\ transcriptions[1] # appended[1]
  /\ transcriptions[15].timestamp = transcriptions[14].timestamp

IsAi(e) == e.type = "ai"

\* C13: the Memory Log holds at most 50 entries, all of the assistant,
\* newest first: they are the last 50 assistant entries that turn-complete
\* events produced, the latest at the front; no user entry is in it.
C13_MemoryNewestFirst50 ==
  LET ai == SelectSeq(appended, IsAi)
      n == Len(ai)
      k == Min(n, 50)
  IN  /\ Len(dbEntries) = k
      /\ \A i \in 1..k : dbEntries[i] = ai[n - i + 1]
      /\ \A i \in 1..k : dbEntries[i].type = "ai"
      /\ \A i, j \in 1..k :
           i < j => dbEntries[i].timestamp >= dbEntries[j].timestamp

\* C13 witness: the 51st assistant entry has been saved; the Memory Log
\* holds 50 with that entry at the front, the first one is gone, and user
\* entries were produced in the same turns.
C13_FullWitness ==
  /\ Len(SelectSeq(appended, IsAi)) = 51
  /\ Len(dbEntries) = 50
  /\ dbEntries[1].timestamp = 51
  /\ dbEntries[50].timestamp = 2
  /\ \E i \in DOMAIN transcriptions : transcriptions[i].type = "user"

TickSubmitsStep ==
  \A t \in timers :
    (sessionState = "CONNECTED" /\ OnVideoTick(t, CaptureTicks)) =>
      \/ mediaOut'.image = mediaOut.image + 1
      \/ Len(sendQueue'[t]) = Len(sendQueue[t]) + 1

\* C14: while the session is CONNECTED every tick of the video timer
\* submits one image chunk to the transport (or leaves it waiting for the
\* session promise, which then submits it).
C14_TickSubmitsImage == [][TickSubmitsStep]_vars

ActiveProcessors == {a \in Attempts : AudioProcessorActive(a)}

CaptureTornDownStep ==
  /\ Cardinality(timers) <= 1
  /\ Cardinality(ActiveProcessors) <= 1
  /\ (stopped /\ sessionState = "DISCONNECTED") =>
       /\ timers = {}
       /\ ActiveProcessors = {}
       /\ captureLog'.blocks = captureLog.blocks
       /\ mediaOut' = mediaOut

\* C15: at most one audio capture pipeline and at most one video timer are
\* active; while the session is DISCONNECTED after a stop() none is, and no
\* audio block is captured and no chunk is submitted to the transport.
C15_CaptureTornDown == [][CaptureTornDownStep]_vars

\* Every captured block whose encoding did not fail has been submitted to
\* the transport or waits for the session promise.
BlocksAccounted ==
  LET queued == UNION {{<<a, i>> : i \in {j \in DOMAIN sendQueue[a] :
                                           sendQueue[a][j].mimeType = "audio"}} :
                       a \in Attempts}
  IN  captureLog.blocks =
        captureLog.encodeFailed + mediaOut.audio + Cardinality(queued)

FailureAbsorbedStep ==
  /\ BlocksAccounted'
  /\ captureLog' # captureLog =>
       /\ sessionState' = sessionState
       /\ error' = error
       /\ stopped' = stopped
       /\ transport' = transport
       /\ timers' = timers
       /\ stream' = stream
       /\ closes' = closes
  /\ \A a \in Attempts, o \in BlockOutcomes :
       \/ captureLog'.blocks = captureLog.blocks
       \/ /\ AudioProcessorActive(a)'
          /\ \/ o = "encodeFails"
             \/ mediaOut'.audio = mediaOut.audio + 1
             \/ Len(sendQueue'[a]) = Len(sendQueue[a]) + 1
       \/ ~OnAudioProcess(a, o, CaptureBlocks)

\* C16: a step in which a block is captured or the encoding or sending of
\* a block fails changes neither SessionState nor the error message and
\* stops nothing; the processor stays active, and every block whose own
\* encoding does not fail is submitted to the transport, whatever failed
\* before it.
C16_SendFailureAbsorbed == [][FailureAbsorbedStep]_vars

\* C16 witness: the encoding of one block and the sending of another have
\* failed; the session is still CONNECTED without an error message, the
\* processor is active and the block that was encoded was submitted.
C16_AfterFailureWitness ==
  /\ captureLog.blocks = 2
  /\ captureLog.encodeFailed = 1
  /\ captureLog.sendFailed = 1
  /\ mediaOut.audio = 1
  /\ sessionState = "CONNECTED"
  /\ error = "null"
  /\ ActiveProcessors # {}

\* A step that is an invocation of start(): it begins a new attempt.
StartStep == Len(pc') # Len(pc) /\ ClickConnect(2)

\* A step that is a device-permission failure, a transport-open failure
\* (both end the attempt) or a transport error event (the transport is
\* closing afterwards).
FailureStep ==
  \E a \in Attempts :
    \/ pc'[a] # pc[a] /\ (GumDenied(a) \/ ConnectRejected(a))
    \/ transport'[a] = "closing" /\ OnError(a)

ErrorMessageStep ==
  /\ StartStep => error' = "null"
  /\ error' = "null" => ~FailureStep
  /\ error' # error => StartStep \/ FailureStep

CursorMonotoneStep ==
  nextStartTimeRef' < nextStartTimeRef =>
    InterruptedHandled /\ nextStartTimeRef' = 0

\* C18: no step decreases the cursor except the handling of an interrupted
\* event, which sets it to 0; a handler that resumes from decoding never
\* decreases it.
C18_CursorMonotone == [][CursorMonotoneStep]_vars

\* C18 witness: an interruption has reset the cursor while a handler was
\* suspended in decoding; the handler has resumed and moved the cursor from
\* 0 up by its buffer's duration.
C18_ResumedWitness ==
  \E k \in DOMAIN bufs :
    /\ bufs[k].cut
    /\ bufs[k].st = "playing"
    /\ bufs[k].when = 0
    /\ ctxTime[bufs[k].ctx] > 0
    /\ nextStartTimeRef = bufs[k].dur

\* C19: of two audio payload events with no interrupted event handled
\* since the first arrived, the buffer of the earlier one is scheduled
\* before that of the later one and ends no later than the later one
\* starts, whatever order the decodes complete in.
C19_FifoOrder ==
  \A i, j \in DOMAIN bufs :
    (i < j /\ ~bufs[i].cut /\ ~bufs[j].cut /\ Scheduled(bufs[j])) =>
      Scheduled(bufs[i]) /\ End(bufs[i]) <= bufs[j].when

\* The handling of a message that carries the turn-complete flag completes.
TurnCompleteHandled ==
  \/ \E a \in Attempts, m \in Messages :
       m.turnComplete /\ m.audio = 0 /\ OnMessage(a, m, 0)
  \/ \E k \in DOMAIN bufs : bufs[k].msg.turnComplete /\ DecodeResolved(k)

BuffersEmptiedStep ==
  TurnCompleteHandled =>
    /\ currentInputTranscription' = <<>>
    /\ currentOutputTranscription' = <<>>

\* C20: after a turn-complete event has been handled both transcript
\* buffers are empty, also when they held nothing but whitespace and no
\* entry was produced.
C20_BuffersEmptyAfterTurn == [][BuffersEmptiedStep]_vars

\* C21: after stop() the in-flight set is empty and stays empty, and no
\* source is playing, until the next start(), also when an audio payload
\* event was still being decoded when stop() ran.
C21_StopEmptiesInFlight ==
  stopped =>
    /\ sourcesRef = {}
    /\ \A k \in DOMAIN bufs : bufs[k].st # "playing"

\* No source of the AudioContext of payload event k has been scheduled.
FirstOfSession(k) ==
  \A j \in DOMAIN bufs : bufs[j].ctx = bufs[k].ctx => ~Scheduled(bufs[j])

\* Every other payload event belongs to an earlier session, and its source
\* was playing when stop() cut it off.
EarlierSourcesStopped(k) ==
  \A j \in DOMAIN bufs :
    j # k => bufs[j].st = "stopped" /\ bufs[j].ctx < bufs[k].ctx

FirstStartsNowStep ==
  \A k \in DOMAIN bufs :
    (Schedules(k) /\ FirstOfSession(k) /\ ~stopped
       /\ EarlierSourcesStopped(k)) =>
      bufs'[k].at = ctxTime[bufs[k].ctx]

\* C22: the first buffer that is scheduled in a running session starts at
\* the current time of that session's output clock, also when the sources
\* of an earlier session were playing when stop() ended that session.
C22_FirstBufferStartsNow == [][FirstStartsNowStep]_vars

\* The received user or assistant text that the step's new entries should
\* hold is that of the current session only.
SessionOnlyStep ==
  /\ \A a \in Attempts, m \in LogMessages :
       \/ ~m.turnComplete
       \/ Produces(sessionIn \o m.inputTranscription,
                   sessionOut \o m.outputTranscription)
       \/ ~OnMessage(a, m, RestartAudio)
  /\ \A k \in DOMAIN bufs :
       \/ ~bufs[k].msg.turnComplete
       \/ Produces(sessionIn, sessionOut)
       \/ ~DecodeResolved(k)

\* C23: the entries a turn-complete event produces hold only fragments
\* that arrived since the session was started: fragments that a stopped
\* session left in the buffers do not appear in them.
C23_EntriesOfThisSession == [][SessionOnlyStep]_vars

=============================================================================
